---- MODULE Spec2Model ----
(***************************************************************************)
(* Model of fix_translations.py: the catalog reconciliation of            *)
(* XMLWorker.run, the per-file patcher                                     *)
(* process_single_file_for_xml_replacement, the multiprocessing dispatcher *)
(* XMLWorker._replace_in_files, and the two Divine.exe conversion workers. *)
(*                                                                         *)
(* A path is a record [dir, name]: dir is the sequence of directory parts, *)
(* name the file name split at its dots ("a.txt.backup" is                 *)
(* <<"a","txt","backup">>).  A file's content is a sequence of tokens, one *)
(* token per span of text that the regular expressions of the patcher can  *)
(* tell apart.  The file system fs maps the existing paths to contents.    *)
(***************************************************************************)
EXTENDS Integers, Sequences, FiniteSets, TLC

VARIABLES
    kind,               \* which QThread runs: "xml", "lsx" or "lsf"
    fs,                 \* the file system: path -> content
    readonly,           \* paths whose open-for-write raises (OSError)
    original_file,      \* XMLWorker.original_file
    new_file,           \* XMLWorker.new_file
    recursive,          \* self.recursive
    backup,             \* self.backup
    processes,          \* self.processes (cpu_count for the converters)
    divine_exists,      \* os.path.exists(self.divine_exe_path)
    running,            \* self.running, cleared by stop()
    pc,                 \* position of the QThread's run()
    original_contents,  \* dict contentuid -> [version, text] of the original
    new_contents,       \* dict contentuid -> [version, text] of the new XML
    new_tree,           \* the parsed new XML: its elements and those removed
    nodes_to_delete,    \* list of element positions marked for deletion
    replacements,       \* dict contentuid -> contentuid
    total_files,        \* len(filtered_files) / len(files_to_scan)
    tasks,              \* args_list entries not yet taken by a pool worker
    num_processes,      \* size of the multiprocessing.Pool
    workers,            \* the units the pool's worker processes are inside
    results,            \* results produced and not yet consumed by run()
    processed_count,    \* processed_count of the consuming loop
    files_modified,     \* self.files_modified (absent until set)
    tally,              \* loop counters: converted, skipped, error_files, ...
    progress_percent,   \* values emitted on the progress_percent signal
    finished_signal,    \* dicts emitted on finished_signal
    error_signal,       \* number of error_signal emissions
    runNo,              \* 1 for the run, 2 for a repeated patch stage
    hist                \* history of the run: what was written, by whom

vars == <<kind, fs, readonly, original_file, new_file, recursive, backup,
          processes, divine_exists, running, pc, original_contents,
          new_contents, new_tree, nodes_to_delete, replacements, total_files,
          tasks, num_processes, workers, results, processed_count,
          files_modified, tally, progress_percent, finished_signal, error_signal, runNo, hist>>

(***************************************************************************)
(* Bounds of the model.                                                    *)
(***************************************************************************)
MaxEntries == 2     \* content elements per catalog
MaxFiles == 2       \* files in the search directory at the start of a run
MaxProcs == 2       \* pool size offered to the run

(***************************************************************************)
(* Strings.                                                                *)
(***************************************************************************)
None == "<None>"            \* Python's None (elem.text of an empty element)
NoAttr == "<no-attr>"       \* the attribute is not in elem.attrib

\* str.lower() on the name parts the model uses.
Lower(s) ==
    CASE s = "English" -> "english"
      [] s = "XML" -> "xml"
      [] s = "Meta" -> "meta"
      [] s = "LSX" -> "lsx"
      [] s = "LSF" -> "lsf"
      [] s = "PAK" -> "pak"
      [] OTHER -> s

\* re \d+ on a version value: one or more decimal digits.
IsDigits(v) == v \in {"1", "2", "3"}

\* `uid in s` for the identifiers of the model: "h1" is a substring of "h10".
IdIn(uid, s) == uid = s \/ (uid = "h1" /\ s = "h10")

(***************************************************************************)
(* Paths.                                                                  *)
(***************************************************************************)
MkPath(d, n) == [dir |-> d, name |-> n]

\* f"{file_path}.backup"
BackupPath(p) == [p EXCEPT !.name = @ \o <<"backup">>]

\* Path.suffix.lower(): the last dot part, none for a leading-dot name.
Suffix(p) ==
    IF Len(p.name) >= 2 /\ ~(Len(p.name) = 2 /\ p.name[1] = "")
    THEN Lower(p.name[Len(p.name)])
    ELSE ""

\* f.name.lower() == "english.xml"
IsEnglishXml(p) ==
    /\ Len(p.name) = 2
    /\ Lower(p.name[1]) = "english"
    /\ Lower(p.name[2]) = "xml"

\* ".git" in str(f): the substring test on the whole path string.
GitInStr(p) ==
    \/ \E i \in 1..Len(p.dir) : p.dir[i] \in {".git", ".github"}
    \/ \E i \in 2..Len(p.name) : p.name[i] \in {"git", "gitignore"}

\* ".git" in f.parts / "Tools" in f.parts: a whole path component.
HasPart(p, part) ==
    \/ \E i \in 1..Len(p.dir) : p.dir[i] = part
    \/ (Len(p.name) = 1 /\ p.name[1] = part)
    \/ (part = ".git" /\ p.name = <<"", "git">>)

search_dir == <<"Mods">>

\* search_path.rglob(pattern) / search_path.glob(pattern), is_file()
UnderSearchDir(p, rec) ==
    /\ Len(p.dir) >= Len(search_dir)
    /\ SubSeq(p.dir, 1, Len(search_dir)) = search_dir
    /\ (rec \/ Len(p.dir) = Len(search_dir))

\* A worker without the list of binary extensions.
BinaryExtensionsNone == {}

\* Line 214: the extensions skipped without a read.
BinaryExtensions ==
    {"pak", "lsf", "bin", "exe", "dll", "so", "dylib", "jpg", "png", "ttf",
     "dat", "db"}

(***************************************************************************)
(* Python dicts that keep insertion order: sequences of [k, v] items.      *)
(***************************************************************************)
DictKeys(d) == {d[i].k : i \in 1..Len(d)}

DictGet(d, key) == (CHOOSE i \in 1..Len(d) : d[i].k = key)

\* d[key] = value: an existing key keeps its place.
DictSet(d, key, value) ==
    IF key \in DictKeys(d)
    THEN [i \in 1..Len(d) |-> IF d[i].k = key THEN [k |-> key, v |-> value] ELSE d[i]]
    ELSE Append(d, [k |-> key, v |-> value])

(***************************************************************************)
(* File contents.  Token shapes (field t names the shape):                 *)
(*   content  <content contentuid="uid"<ws>version="version">text</content>*)
(*            (uid or version NoAttr: the attribute is not written)        *)
(*   cuid     contentuid="uid"<ws>version="version"  (version NoAttr:      *)
(*            only contentuid="uid")                                       *)
(*   id       id="uid" version="version", not preceded by "contentu"       *)
(*   quoted   "uid"                                                        *)
(*   word     an identifier s outside quotes                               *)
(*   node     <node id="TagText">                                          *)
(*   ws       a run of white space: "sp" one blank, "nl" a line break with *)
(*            indentation, "nl11" "\n" and 11 tabs, "nl51"/"nl48" "\n" and *)
(*            51/48 blanks                                                 *)
(*   attr     <attribute id="TagText" type="TranslatedString" handle="uid" *)
(*            version="version" followed by tail: "sp_slash" is " />",     *)
(*            "slash" is "/>"                                              *)
(*   tagopen  "TagText" : {                                                *)
(*   handle   "handle" : "uid",<ws1>"type" : "TranslatedString",<ws2>      *)
(*            "version" : version   (version NoAttr: only the handle)      *)
(*   close    }                                                            *)
(***************************************************************************)
Tok(c, i, shape) == i >= 1 /\ i <= Len(c) /\ c[i].t = shape

\* `old_uid in content`: the literal substring test of lines 251 and 275.
UidInToken(uid, tok) ==
    CASE tok.t \in {"content", "cuid", "id", "quoted", "attr", "handle"} ->
            IdIn(uid, tok.uid)
      [] tok.t = "word" -> IdIn(uid, tok.s)
      [] OTHER -> FALSE

UidInContent(uid, c) == \E i \in 1..Len(c) : UidInToken(uid, c[i])

\* Pattern 1: contentuid="ID"\s*version="[^"]*"
Pattern1(c, uid, ver) ==
    [i \in 1..Len(c) |->
        IF /\ c[i].t \in {"content", "cuid"}
           /\ c[i].uid = uid
           /\ c[i].version # NoAttr
        THEN [c[i] EXCEPT !.ws = "sp", !.version = ver]
        ELSE c[i]]

\* Patterns 2, 3, 4 and 8 replace a literal that holds the id by the same
\* literal with new_uid, which is old_uid (line 623): re.sub returns the
\* content with every match replaced by the text it matched.
Pattern2(c, old_uid, new_uid) ==
    [i \in 1..Len(c) |->
        IF c[i].t \in {"content", "cuid"} /\ c[i].uid = old_uid
        THEN [c[i] EXCEPT !.uid = new_uid] ELSE c[i]]

Pattern3(c, old_uid, new_uid) ==
    [i \in 1..Len(c) |->
        IF c[i].t \in {"content", "cuid", "id"} /\ c[i].uid = old_uid
        THEN [c[i] EXCEPT !.uid = new_uid] ELSE c[i]]

Pattern4(c, old_uid, new_uid) ==
    [i \in 1..Len(c) |->
        IF c[i].t \in {"content", "cuid", "id", "quoted", "attr", "handle"}
           /\ c[i].uid = old_uid
        THEN [c[i] EXCEPT !.uid = new_uid] ELSE c[i]]

\* Pattern 5: <attribute ... handle="ID" version="[^"]*" />
Pattern5(c, uid, ver) ==
    [i \in 1..Len(c) |->
        IF c[i].t = "attr" /\ c[i].uid = uid /\ c[i].tail = "sp_slash"
        THEN [c[i] EXCEPT !.version = ver] ELSE c[i]]

\* Pattern 6: <attribute ... handle="ID" version="(\d+)"
Pattern6(c, uid, ver) ==
    [i \in 1..Len(c) |->
        IF c[i].t = "attr" /\ c[i].uid = uid /\ IsDigits(c[i].version)
        THEN [c[i] EXCEPT !.version = ver] ELSE c[i]]

\* Pattern 9: <node id="TagText">\s+<attribute ... handle="ID" version="[^"]*" />
Match9(c, i, uid) ==
    /\ Tok(c, i, "node") /\ Tok(c, i + 1, "ws") /\ Tok(c, i + 2, "attr")
    /\ c[i + 2].uid = uid /\ c[i + 2].tail = "sp_slash"

Pattern9(c, uid, ver) ==
    [i \in 1..Len(c) |->
        IF Match9(c, i - 1, uid) THEN [c[i] EXCEPT !.s = "nl11"]
        ELSE IF Match9(c, i - 2, uid) THEN [c[i] EXCEPT !.version = ver]
        ELSE c[i]]

\* Pattern 7: "handle" : "ID",\s*"type" : "TranslatedString",\s*"version" : \d+
Pattern7(c, uid, ver) ==
    [i \in 1..Len(c) |->
        IF c[i].t = "handle" /\ c[i].uid = uid /\ IsDigits(c[i].version)
        THEN [c[i] EXCEPT !.ws1 = "sp", !.ws2 = "sp", !.version = ver]
        ELSE c[i]]

Pattern8(c, old_uid, new_uid) ==
    [i \in 1..Len(c) |->
        IF c[i].t = "handle" /\ c[i].uid = old_uid
        THEN [c[i] EXCEPT !.uid = new_uid] ELSE c[i]]

\* Pattern 10: "TagText" : {\s+"handle" : "ID",\s+"type" : "TranslatedString",
\*             \s+"version" : \d+\s+}
Match10(c, i, uid) ==
    /\ Tok(c, i, "tagopen") /\ Tok(c, i + 1, "ws") /\ Tok(c, i + 2, "handle")
    /\ Tok(c, i + 3, "ws") /\ Tok(c, i + 4, "close")
    /\ c[i + 2].uid = uid /\ IsDigits(c[i + 2].version)
    /\ c[i + 2].ws1 # "" /\ c[i + 2].ws2 # ""

Pattern10(c, uid, ver) ==
    [i \in 1..Len(c) |->
        IF Match10(c, i - 1, uid) THEN [c[i] EXCEPT !.s = "nl51"]
        ELSE IF Match10(c, i - 2, uid)
             THEN [c[i] EXCEPT !.ws1 = "nl51", !.ws2 = "nl51", !.version = ver]
        ELSE IF Match10(c, i - 3, uid) THEN [c[i] EXCEPT !.s = "nl48"]
        ELSE c[i]]

LsxPatterns(c, uid, ver) == Pattern9(Pattern6(Pattern5(c, uid, ver), uid, ver), uid, ver)

LsjPatterns(c, old_uid, new_uid, ver) ==
    Pattern10(Pattern8(Pattern7(c, old_uid, ver), old_uid, new_uid), old_uid, ver)

CommonPatterns(c, old_uid, new_uid, ver) ==
    Pattern3(Pattern2(Pattern1(c, old_uid, ver), old_uid, new_uid), old_uid, new_uid)

\* Lines 274-369 for one item of replacements: the common patterns, then the
\* patterns of the file's extension.
ReplaceOne(c, ext, old_uid, new_uid, orig) ==
    LET original_version == orig[new_uid].version
        common == CommonPatterns(c, old_uid, new_uid, original_version)
    IN  CASE ext = "lsx" -> LsxPatterns(common, old_uid, original_version)
          [] ext = "lsj" -> LsjPatterns(common, old_uid, new_uid, original_version)
          [] OTHER -> Pattern4(common, old_uid, new_uid)

\* The loop of line 274 over replacements.items(), from item n on; the test of
\* line 275 reads content, the text as read, not modified_content.
RECURSIVE MakeReplacements(_, _, _, _, _, _)
MakeReplacements(content, modified_content, ext, repl, orig, n) ==
    IF n > Len(repl) THEN modified_content
    ELSE MakeReplacements(
            content,
            IF UidInContent(repl[n].k, content)
            THEN ReplaceOne(modified_content, ext, repl[n].k, repl[n].v, orig)
            ELSE modified_content,
            ext, repl, orig, n + 1)

\* needs_update set without a look at the content.
NeedsUpdateAlways(content, repl) == TRUE

\* Lines 248-253: needs_update.
NeedsUpdate(content, repl) ==
    \E n \in 1..Len(repl) : UidInContent(repl[n].k, content)


(***************************************************************************)
(* Catalogs.  A catalog file is the token "root" (the declaration and the  *)
(* root element) followed by its content elements in document order; an    *)
(* element of depth 1 is a child of the root, an element of depth 2 a      *)
(* child of the nearest element of depth 1 before it.  An empty or         *)
(* otherwise malformed file does not parse.                                *)
(***************************************************************************)
Root == [t |-> "root"]

Elem(uid, ws, version, text) ==
    [t |-> "content", uid |-> uid, ws |-> ws, version |-> version, text |-> text,
     depth |-> 1]

\* A content element written inside another content element.
Child(uid, ws, version, text) == [Elem(uid, ws, version, text) EXCEPT !.depth = 2]

\* A parser that takes every file that is not empty.
ParseableNonEmpty(c) == Len(c) >= 1

\* ET.parse(file).getroot().findall(".//content"), or "ParseError"
Parseable(c) ==
    /\ Len(c) >= 1
    /\ c[1] = Root
    /\ \A i \in 2..Len(c) : c[i].t = "content"
    /\ Len(c) >= 2 => c[2].depth = 1

FindallContent(c) == Tail(c)

\* elem.attrib.get("version"): no default for a missing attribute.
AttribGetVersionRaw(elem) == elem.version

\* elem.attrib.get("version", "")
AttribGetVersion(elem) == IF elem.version = NoAttr THEN "" ELSE elem.version

\* original_contents built so that the first element with a contentuid
\* stays.
RECURSIVE ExtractOriginalFirst(_, _, _)
ExtractOriginalFirst(elems, n, acc) ==
    IF n > Len(elems) THEN acc
    ELSE ExtractOriginalFirst(
            elems, n + 1,
            IF elems[n].uid # NoAttr /\ elems[n].uid \notin DOMAIN acc
            THEN [u \in DOMAIN acc \cup {elems[n].uid} |->
                    IF u = elems[n].uid
                    THEN [version |-> IF elems[n].version = NoAttr THEN ""
                                      ELSE elems[n].version,
                          text |-> elems[n].text]
                    ELSE acc[u]]
            ELSE acc)

\* Lines 585-594: original_contents, built element by element (a later
\* element with the same contentuid overwrites the earlier one).
RECURSIVE ExtractOriginal(_, _, _)
ExtractOriginal(elems, n, acc) ==
    IF n > Len(elems) THEN acc
    ELSE ExtractOriginal(
            elems, n + 1,
            IF elems[n].uid # NoAttr
            THEN [u \in DOMAIN acc \cup {elems[n].uid} |->
                    IF u = elems[n].uid
                    THEN [version |-> AttribGetVersion(elems[n]), text |-> elems[n].text]
                    ELSE acc[u]]
            ELSE acc)

EmptyDict == [u \in {} |-> 0]

\* The test of line 619 without its comparison of the texts.
MarkTestAnyText(version, orig_version, orig_text, curr_text) ==
    version # orig_version

\* Line 619: the test that marks an element.
MarkTest(version, orig_version, orig_text, curr_text) ==
    version # orig_version /\ orig_text = curr_text

\* A replacement map that sends every id to a fresh id.
ReplacementForFresh(contentuid) == "h9"

\* Line 623: replacements[contentuid] = contentuid
ReplacementFor(contentuid) == contentuid

\* Lines 603-626: the loop over the new XML's elements from element n on.
\* st = [new_contents, nodes_to_delete, replacements].
RECURSIVE ReconcileFrom(_, _, _, _)
ReconcileFrom(elems, orig, n, st) ==
    IF n > Len(elems) THEN st
    ELSE IF elems[n].uid = NoAttr THEN ReconcileFrom(elems, orig, n + 1, st)
    ELSE LET contentuid == elems[n].uid
             version == AttribGetVersion(elems[n])
             nc == [u \in DOMAIN st.new_contents \cup {contentuid} |->
                      IF u = contentuid
                      THEN [version |-> version, text |-> elems[n].text]
                      ELSE st.new_contents[u]]
             mark == /\ contentuid \in DOMAIN orig
                     /\ MarkTest(version, orig[contentuid].version,
                                 orig[contentuid].text, elems[n].text)
         IN  ReconcileFrom(elems, orig, n + 1,
                [new_contents |-> nc,
                 nodes_to_delete |->
                    IF mark THEN Append(st.nodes_to_delete, n) ELSE st.nodes_to_delete,
                 replacements |->
                    IF mark
                    THEN DictSet(st.replacements, contentuid, ReplacementFor(contentuid))
                    ELSE st.replacements])

\* Element n with the elements written inside it.
Subtree(elems, n) ==
    {n} \cup {m \in (n + 1)..Len(elems) :
                \A k \in (n + 1)..m : elems[k].depth > elems[n].depth}

\* Lines 664-670: the parent of element n, None when root.iter() no longer
\* reaches n.
FindParent(tree, n) ==
    IF n \notin (1..Len(tree.elems)) \ tree.removed THEN None
    ELSE IF tree.elems[n].depth = 1 THEN "root"
    ELSE CHOOSE k \in 1..(n - 1) :
            /\ tree.elems[k].depth < tree.elems[n].depth
            /\ \A j \in (k + 1)..(n - 1) : tree.elems[j].depth >= tree.elems[n].depth

\* Lines 635-638: parent.remove(elem) for the marked elements; an element
\* leaves the tree with everything inside it.
RECURSIVE DeleteNodes(_, _, _)
DeleteNodes(tree, marked, k) ==
    IF k > Len(marked) THEN tree
    ELSE DeleteNodes(
            IF FindParent(tree, marked[k]) # None
            THEN [tree EXCEPT !.removed = @ \cup Subtree(tree.elems, marked[k])]
            ELSE tree,
            marked, k + 1)

\* The elements still in the tree, in document order.
RECURSIVE Remaining(_, _)
Remaining(tree, n) ==
    IF n > Len(tree.elems) THEN <<>>
    ELSE (IF n \in tree.removed THEN <<>> ELSE <<tree.elems[n]>>)
         \o Remaining(tree, n + 1)

\* new_tree.write(...): ElementTree writes the attributes one blank apart.
Serialize(tree) ==
    LET rest == Remaining(tree, 1)
    IN  <<Root>> \o [i \in 1..Len(rest) |-> [rest[i] EXCEPT !.ws = "sp"]]


(***************************************************************************)
(* The file system and the history of the run.                             *)
(***************************************************************************)
Put(f, p, c) == (p :> c) @@ f

Remove(f, p) == [q \in (DOMAIN f) \ {p} |-> f[q]]

\* hist after shutil.copy2(src, BackupPath(src)) wrote the backup file.
HistBackup(h, src) ==
    [h EXCEPT !.created = @ \cup {BackupPath(src)},
              !.rewritten = IF BackupPath(src) \in h.created
                            THEN @ \cup {BackupPath(src)} ELSE @]

\* hist after open(p, 'w') on p, whose content was c.
HistOpen(h, p, c) ==
    [h EXCEPT !.pre = Put(@, p, c),
              !.rewritten = IF p \in h.created THEN @ \cup {p} ELSE @]

\* hist after unit u produced the output `what`; u.late says that the unit
\* was started after stop() had been called.
HistOutput(h, u, what) ==
    IF u.late
    THEN [h EXCEPT !.lateOutput = @ \cup {[unit |-> u.path, what |-> what]}]
    ELSE h

\* hist after the pool handed the task of path f to a worker.
HistTake(h, f) ==
    [h EXCEPT !.taken = @ \cup {f},
              !.retaken = IF f \in h.taken THEN @ \cup {f} ELSE @]

\* hist after subprocess.run(command) on source f ended with `outcome`.
HistRun(h, f, outcome) == [h EXCEPT !.ran = Put(@, f, outcome)]

\* hist after os.remove(f) deleted the source f.
HistRemove(h, f) == [h EXCEPT !.removed = @ \cup {f}]

HistInit ==
    [created |-> {}, rewritten |-> {}, pre |-> EmptyDict, lateOutput |-> {},
     killed |-> {}, patched |-> {}, backedUp |-> {}, taken |-> {},
     retaken |-> {}, ran |-> EmptyDict, removed |-> {}]

\* The share of the units still to come.
PercentRemaining(count, total) == ((total - count) * 100) \div total

\* int((processed_count / total_files) * 100)
Percent(count, total) == (count * 100) \div total

\* min(total_files, processes), at least one process (lines 705-707, 131-133)
NumProcesses(total, procs) ==
    IF (IF total < procs THEN total ELSE procs) <= 0 /\ total > 0
    THEN 1
    ELSE IF total < procs THEN total ELSE procs

\* pool.terminate(): every worker process is stopped where it stands; the
\* units they were inside are recorded with the step they had reached.
KilledUnits(ws) == {[path |-> u.path, at |-> u.pc] : u \in ws}

cfgVars == <<kind, readonly, original_file, new_file, recursive, backup,
             processes, divine_exists>>
catVars == <<original_contents, new_contents, new_tree, nodes_to_delete,
             replacements>>
poolVars == <<total_files, tasks, num_processes, workers, results,
              processed_count, files_modified, tally>>
sigVars == <<progress_percent, finished_signal, error_signal>>

\* A run() that goes back to its summary after emitting the result.
RunEndAgain == "after_loop"

\* Lines 659, 177, 543: finished_signal.emit(...) is the last statement of
\* run(); the thread ends.
RunEnd == "done"

(***************************************************************************)
(* stop(): the GUI thread clears self.running at any moment of a run.      *)
(***************************************************************************)
Stop ==
    /\ pc # "done"
    /\ running
    /\ running' = FALSE
    /\ UNCHANGED <<cfgVars, catVars, poolVars, sigVars, fs, pc, runNo, hist>>

(***************************************************************************)
(* XMLWorker.run                                                           *)
(***************************************************************************)
\* Lines 576-581 raise: one of the two files is not well-formed (line 662).
XmlParseError ==
    /\ kind = "xml" /\ pc = "start"
    /\ ~Parseable(fs[original_file]) \/ ~Parseable(fs[new_file])
    /\ error_signal' = error_signal + 1
    /\ pc' = "done"
    /\ UNCHANGED <<cfgVars, catVars, poolVars, progress_percent,
                   finished_signal, fs, running, runNo, hist>>

\* Lines 575-630: parse both files, build original_contents, mark.
XmlRead ==
    /\ kind = "xml" /\ pc = "start"
    /\ Parseable(fs[original_file]) /\ Parseable(fs[new_file])
    /\ LET orig == ExtractOriginal(FindallContent(fs[original_file]), 1, EmptyDict)
           elems == FindallContent(fs[new_file])
           st == ReconcileFrom(elems, orig, 1,
                    [new_contents |-> EmptyDict, nodes_to_delete |-> <<>>,
                     replacements |-> <<>>])
       IN  /\ original_contents' = orig
           /\ new_contents' = st.new_contents
           /\ nodes_to_delete' = st.nodes_to_delete
           /\ replacements' = st.replacements
           /\ new_tree' = [elems |-> elems, removed |-> {}]
    /\ pc' = "save"
    /\ UNCHANGED <<cfgVars, poolVars, sigVars, fs, running, runNo, hist>>

\* The catalog saved whether or not a node was marked.
ShouldSaveAlways(nodes) == TRUE

\* Line 633: if nodes_to_delete:
ShouldSave(nodes) == nodes # <<>>

\* Lines 632-647: delete the marked nodes, back the new XML up, write it.
\* shutil.copy2 or the write may raise (line 662): the run ends there.
XmlSave ==
    /\ kind = "xml" /\ pc = "save"
    /\ IF ~ShouldSave(nodes_to_delete)
       THEN /\ pc' = "replace"
            /\ UNCHANGED <<new_tree, fs, hist, error_signal>>
       ELSE LET tree == DeleteNodes(new_tree, nodes_to_delete, 1)
                bpath == BackupPath(new_file)
                copyFails == backup /\ bpath \in readonly
                fs1 == IF backup /\ ~copyFails THEN Put(fs, bpath, fs[new_file]) ELSE fs
                h1 == IF backup /\ ~copyFails THEN HistBackup(hist, new_file) ELSE hist
                writeFails == new_file \in readonly
            IN  /\ new_tree' = tree
                /\ IF copyFails
                   THEN /\ fs' = fs /\ hist' = hist
                        /\ error_signal' = error_signal + 1 /\ pc' = "done"
                   ELSE IF writeFails
                   THEN /\ fs' = fs1 /\ hist' = h1
                        /\ error_signal' = error_signal + 1 /\ pc' = "done"
                   ELSE /\ fs' = Put(fs1, new_file, Serialize(tree))
                        /\ hist' = HistOpen(h1, new_file, fs1[new_file])
                        /\ error_signal' = error_signal /\ pc' = "replace"
    /\ UNCHANGED <<cfgVars, original_contents, new_contents, nodes_to_delete,
                   replacements, poolVars, progress_percent, finished_signal,
                   running, runNo>>

\* The files of the search directory without the test on the name.
FilteredFilesAnyName(f, rec) ==
    {p \in {q \in DOMAIN f : UnderSearchDir(q, rec)} : ~GitInStr(p)}

\* Lines 680-686: the files of the search directory, without english.xml and
\* without any path whose string holds ".git".
FilteredFiles(f, rec) ==
    {p \in {q \in DOMAIN f : UnderSearchDir(q, rec)} :
        ~IsEnglishXml(p) /\ ~GitInStr(p)}

\* Lines 672-715: scan, filter, start the pool; with no file to process the
\* method returns at line 692.
ReplaceInFilesBegin ==
    LET filtered_files == FilteredFiles(fs, recursive)
    IN  IF filtered_files = {}
        THEN /\ pc' = "finish"
             /\ UNCHANGED poolVars
        ELSE /\ files_modified' = 0
             /\ total_files' = Cardinality(filtered_files)
             /\ tasks' = filtered_files
             /\ num_processes' = NumProcesses(Cardinality(filtered_files), processes)
             /\ workers' = {}
             /\ results' = {}
             /\ processed_count' = 0
             /\ tally' = [errors |-> 0, unmodified |-> 0]
             /\ pc' = "loop"

\* Lines 650-652: _replace_in_files is called when there are replacements.
XmlReplaceBegin ==
    /\ kind = "xml" /\ pc = "replace"
    /\ IF replacements = <<>>
       THEN /\ pc' = "finish"
            /\ UNCHANGED poolVars
       ELSE ReplaceInFilesBegin
    /\ UNCHANGED <<cfgVars, catVars, sigVars, fs, running, runNo, hist>>

\* Lines 747-750: multiprocessing.Pool(...) raises; _replace_in_files emits
\* the error and returns False, and run() goes on to line 654.
XmlPoolError ==
    /\ kind = "xml" /\ pc = "replace"
    /\ replacements # <<>> /\ FilteredFiles(fs, recursive) # {}
    /\ files_modified' = 0
    /\ total_files' = Cardinality(FilteredFiles(fs, recursive))
    /\ processed_count' = 0
    /\ error_signal' = error_signal + 1
    /\ pc' = "finish"
    /\ UNCHANGED <<cfgVars, catVars, tasks, num_processes, workers, results, tally,
                   progress_percent, finished_signal, fs, running, runNo, hist>>

\* A loop that never looks at the flag.
CanceledNever(flag) == FALSE

\* Lines 718 and 144: if not self.running
Canceled(flag) == ~flag

\* Lines 717-746: one turn of the loop over results_iterator, on `result`.
XmlConsume(result) ==
    /\ kind = "xml" /\ pc = "loop"
    /\ result \in results
    /\ IF Canceled(running)
       THEN \* lines 718-722: pool.terminate() and break
            /\ workers' = {}
            /\ hist' = [hist EXCEPT !.killed = @ \cup KilledUnits(workers)]
            /\ tasks' = {}
            /\ results' = {}
            /\ pc' = "after_loop"
            /\ UNCHANGED <<processed_count, files_modified, tally, progress_percent>>
       ELSE /\ processed_count' = processed_count + 1
            /\ progress_percent' =
                  Append(progress_percent, Percent(processed_count + 1, total_files))
            /\ files_modified' = IF result.modified THEN files_modified + 1
                                 ELSE files_modified
            /\ tally' = [errors |-> tally.errors + (IF result.error THEN 1 ELSE 0),
                         unmodified |-> tally.unmodified +
                            (IF ~result.modified /\ ~result.error THEN 1 ELSE 0)]
            /\ results' = results \ {result}
            /\ pc' = IF processed_count + 1 = total_files THEN "after_loop" ELSE "loop"
            /\ UNCHANGED <<workers, tasks, hist>>
    /\ UNCHANGED <<cfgVars, catVars, total_files, num_processes, finished_signal,
                   error_signal, fs, running, runNo>>

\* The result record without the count of files.
ResultRecordNoFiles(modified) ==
    [nodes_deleted |-> Len(nodes_to_delete), replacements |-> Len(replacements)]

\* The result record of lines 654-659.
ResultRecord(modified) ==
    [nodes_deleted |-> Len(nodes_to_delete),
     replacements |-> Len(replacements),
     files_modified |-> modified]

\* Lines 752-766 and 654-659: the last progress value of _replace_in_files
\* and, in run(), the result.
XmlAfterLoop ==
    /\ kind = "xml" /\ pc = "after_loop"
    /\ progress_percent' =
          IF running /\ processed_count = total_files
          THEN Append(progress_percent, 100)
          ELSE IF ~running
          THEN Append(progress_percent, Percent(processed_count, total_files))
          ELSE progress_percent
    /\ finished_signal' =
          IF runNo = 1
          THEN Append(finished_signal, ResultRecord(files_modified))
          ELSE finished_signal
    /\ pc' = RunEnd
    /\ UNCHANGED <<cfgVars, catVars, poolVars, error_signal, fs, running,
                   runNo, hist>>

\* Lines 654-659 when _replace_in_files was not called, found no file or
\* could not start its pool.
XmlFinish ==
    /\ kind = "xml" /\ pc = "finish"
    /\ finished_signal' =
          IF runNo = 1
          THEN Append(finished_signal,
                      ResultRecord(IF files_modified # -1 THEN files_modified ELSE 0))
          ELSE finished_signal
    /\ pc' = RunEnd
    /\ UNCHANGED <<cfgVars, catVars, poolVars, progress_percent, error_signal,
                   fs, running, runNo, hist>>

\* Lines 650-652 once more: _replace_in_files(replacements,
\* original_contents) is called a second time on the tree that the first
\* call left behind, with the same two arguments.
Rerun ==
    /\ kind = "xml" /\ pc = "done" /\ runNo = 1
    /\ running
    /\ Len(finished_signal) = 1
    /\ replacements # <<>>
    /\ runNo' = 2
    /\ hist' = HistInit
    /\ ReplaceInFilesBegin
    /\ UNCHANGED <<cfgVars, catVars, sigVars, fs, running>>

(***************************************************************************)
(* process_single_file_for_xml_replacement, run by a pool worker.  Each    *)
(* action is one access to the file system with the local computation     *)
(* around it; a worker may be terminated between two of them.              *)
(***************************************************************************)
Unmodified(f) == [file_path |-> f, modified |-> FALSE, error |-> FALSE]

\* A result that reports the write as done and as failed.
WriteErrorAfterModified(f) == [file_path |-> f, modified |-> TRUE, error |-> TRUE]

\* Lines 379-383: the result of a write that raised.
WriteError(f) == [file_path |-> f, modified |-> FALSE, error |-> TRUE]

\* The task queue that still holds the task it has handed out.
AfterTakeKeep(ts, f) == ts

\* Line 715: imap_unordered hands every item of args_list to one worker.
AfterTake(ts, f) == ts \ {f}

\* The test of line 372 answered without a look at the two texts.
ContentChangedAlways(content, modified_content) == TRUE

\* Line 372: modified_content != content
ContentChanged(content, modified_content) == modified_content # content

\* Lines 193-256: the pool hands task f to an idle worker, which applies the
\* skip rules, reads the file and looks for the ids in it.
PatchTake(f) ==
    /\ kind = "xml" /\ pc = "loop"
    /\ Cardinality(workers) < num_processes
    /\ f \in tasks
    /\ tasks' = AfterTake(tasks, f)
    /\ hist' = HistTake(hist, f)
    /\ IF \/ GitInStr(f)
          \/ Suffix(f) \in BinaryExtensions
          \/ f \notin DOMAIN fs
          \/ ~NeedsUpdate(fs[f], replacements)
       THEN /\ results' = results \cup {Unmodified(f)}
            /\ workers' = workers
       ELSE LET content == fs[f]
                modified_content ==
                    MakeReplacements(content, content, Suffix(f), replacements,
                                     original_contents, 1)
                unit == [path |-> f, content |-> content,
                         modified_content |-> modified_content, late |-> ~running]
            IN  IF backup
                THEN /\ workers' = workers \cup {unit @@ [pc |-> "backup"]}
                     /\ results' = results
                ELSE IF ContentChanged(content, modified_content)
                THEN /\ workers' = workers \cup {unit @@ [pc |-> "open"]}
                     /\ results' = results
                ELSE /\ results' = results \cup {Unmodified(f)}
                     /\ workers' = workers
    /\ UNCHANGED <<cfgVars, catVars, sigVars, total_files, num_processes,
                   processed_count, files_modified, tally, fs, running, pc,
                   runNo>>

\* Lines 258-267: shutil.copy2(file_path, backup_path); a failure is logged
\* and the worker goes on.  Then lines 372/385: nothing to write.
PatchBackup(u) ==
    /\ kind = "xml" /\ pc = "loop"
    /\ u \in workers /\ u.pc = "backup"
    /\ LET f == u.path
           fails == BackupPath(f) \in readonly \/ f \notin DOMAIN fs
       IN  /\ fs' = IF fails THEN fs ELSE Put(fs, BackupPath(f), fs[f])
           /\ hist' = IF fails THEN hist
                      ELSE HistOutput([HistBackup(hist, f) EXCEPT !.backedUp = @ \cup {f}],
                                      u, "backup")
           /\ IF ContentChanged(u.content, u.modified_content)
              THEN /\ workers' = (workers \ {u}) \cup {[u EXCEPT !.pc = "open"]}
                   /\ results' = results
              ELSE /\ workers' = workers \ {u}
                   /\ results' = results \cup {Unmodified(f)}
    /\ UNCHANGED <<cfgVars, catVars, sigVars, total_files, tasks, num_processes,
                   processed_count, files_modified, tally, running, pc, runNo>>

\* Line 374: open(file_path, 'w') truncates the file, or raises (lines
\* 379-383).
PatchOpen(u) ==
    /\ kind = "xml" /\ pc = "loop"
    /\ u \in workers /\ u.pc = "open"
    /\ LET f == u.path
       IN  IF f \in readonly
           THEN /\ workers' = workers \ {u}
                /\ results' = results \cup {WriteError(f)}
                /\ UNCHANGED <<fs, hist>>
           ELSE /\ fs' = Put(fs, f, <<>>)
                /\ hist' = HistOutput([HistOpen(hist, f, fs[f]) EXCEPT !.patched = @ \cup {f}],
                                      u, "write")
                /\ workers' = (workers \ {u}) \cup {[u EXCEPT !.pc = "flush"]}
                /\ results' = results
    /\ UNCHANGED <<cfgVars, catVars, sigVars, total_files, tasks, num_processes,
                   processed_count, files_modified, tally, running, pc, runNo>>

\* Lines 375-378: f.write(modified_content), the file is closed, the result
\* is returned.
PatchWrite(u) ==
    /\ kind = "xml" /\ pc = "loop"
    /\ u \in workers /\ u.pc = "flush"
    /\ fs' = Put(fs, u.path, u.modified_content)
    /\ workers' = workers \ {u}
    /\ results' = results \cup
          {[file_path |-> u.path, modified |-> TRUE, error |-> FALSE]}
    /\ UNCHANGED <<cfgVars, catVars, sigVars, total_files, tasks, num_processes,
                   processed_count, files_modified, tally, running, pc, runNo,
                   hist>>

(***************************************************************************)
(* LsxConverterWorker / LsfConverterWorker (kind "lsx" converts *.lsx to   *)
(* .lsf, kind "lsf" converts *.lsf to .lsx)                                *)
(***************************************************************************)
OtherFormat(ext) == IF ext = "lsx" THEN "lsf" ELSE "lsx"

\* rglob("*.lsx") / glob("*.lsx")
GlobMatch(p, ext) == Len(p.name) >= 2 /\ p.name[Len(p.name)] = ext

\* Lines 107-110 / 479-482
FilesToScan(f, rec, ext) ==
    {p \in {q \in DOMAIN f : UnderSearchDir(q, rec) /\ GlobMatch(q, ext)} :
        ~HasPart(p, ".git") /\ ~HasPart(p, "Tools")}

\* filename == "meta.lsx": the comparison without lower().
IsMetaExact(p, ext) == p.name = <<"meta", ext>>

\* filename.lower() == "meta.lsx" (line 27) / "meta.lsf" (line 401)
IsMeta(p, ext) ==
    Len(p.name) = 2 /\ Lower(p.name[1]) = "meta" /\ Lower(p.name[2]) = ext

\* filename == "meta.lsx": the comparison without lower().
\* file_path_obj.with_suffix(".lsf") (line 31) / ".lsx" (line 405)
WithSuffix(p, ext) == [p EXCEPT !.name = SubSeq(@, 1, Len(@) - 1) \o <<ext>>]

\* The third member of every task tuple (lines 125 and 496).
delete_original == TRUE

\* The values the third member of a task tuple can take in a run: the
\* constructors of both workers take search_dir and recursive only (lines
\* 83-88, 455-460) and run() builds every tuple with True.
DeleteFlags == {delete_original}

\* Every exit of Divine.exe taken for a success.
ExitStatusIgnored(outcome) == "converted"

\* Lines 54-74: returncode 0 gives "converted"; another return code and an
\* exception of subprocess.run give "error".
ExitStatus(outcome) == IF outcome = "zero" THEN "converted" ELSE "error"

Resource(ext) == <<[t |-> "resource", format |-> ext]>>

ZeroResult ==
    [converted_files |-> 0, skipped_files |-> 0, error_files |-> <<>>,
     total_scanned |-> 0]

ZeroTally == [converted_files |-> 0, skipped_files |-> 0, error_files |-> <<>>]

\* Lines 92-135 / 464-503: Divine.exe check, scan, start of the pool.
ConvBegin ==
    /\ kind \in {"lsx", "lsf"} /\ pc = "start"
    /\ LET files_to_scan == FilesToScan(fs, recursive, kind)
       IN  IF ~divine_exists
           THEN /\ error_signal' = error_signal + 1
                /\ pc' = "done"
                /\ UNCHANGED <<poolVars, progress_percent, finished_signal>>
           ELSE IF files_to_scan = {}
           THEN /\ progress_percent' = Append(progress_percent, 100)
                /\ finished_signal' = Append(finished_signal, ZeroResult)
                /\ pc' = RunEnd
                /\ UNCHANGED <<poolVars, error_signal>>
           ELSE /\ total_files' = Cardinality(files_to_scan)
                /\ tasks' = files_to_scan
                /\ num_processes' = NumProcesses(Cardinality(files_to_scan), processes)
                /\ workers' = {}
                /\ results' = {}
                /\ processed_count' = 0
                /\ tally' = ZeroTally
                /\ pc' = "loop"
                /\ UNCHANGED <<files_modified, sigVars>>
    /\ UNCHANGED <<cfgVars, catVars, fs, running, runNo, hist>>

\* Lines 160-162 / 528-529: the pool raises; the error is emitted and run()
\* falls through to the final result.
ConvPoolError ==
    /\ kind \in {"lsx", "lsf"} /\ pc = "start"
    /\ divine_exists /\ FilesToScan(fs, recursive, kind) # {}
    /\ total_files' = Cardinality(FilesToScan(fs, recursive, kind))
    /\ processed_count' = 0
    /\ tally' = ZeroTally
    /\ error_signal' = error_signal + 1
    /\ pc' = "after_loop"
    /\ UNCHANGED <<cfgVars, catVars, tasks, num_processes, workers, results,
                   files_modified, progress_percent, finished_signal, fs,
                   running, runNo, hist>>

\* Lines 20-29 / 394-403: the pool hands task f to an idle worker.
ConvTake(f) ==
    /\ kind \in {"lsx", "lsf"} /\ pc = "loop"
    /\ Cardinality(workers) < num_processes
    /\ f \in tasks
    /\ tasks' = tasks \ {f}
    /\ IF IsMeta(f, kind)
       THEN /\ results' = results \cup {[status |-> "skipped", path |-> f]}
            /\ workers' = workers
       ELSE /\ workers' = workers \cup {[pc |-> "divine", path |-> f, late |-> ~running]}
            /\ results' = results
    /\ UNCHANGED <<cfgVars, catVars, sigVars, total_files, num_processes,
                   processed_count, files_modified, tally, fs, running, pc,
                   runNo, hist>>

\* Lines 41-74 / 415-446: subprocess.run(command): Divine.exe exits with 0
\* and has written the destination, or exits with another code, or cannot
\* be launched.
ConvRun(u, outcome) ==
    /\ kind \in {"lsx", "lsf"} /\ pc = "loop"
    /\ u \in workers /\ u.pc = "divine"
    /\ LET f == u.path
           dest == WithSuffix(f, OtherFormat(kind))
       IN  /\ fs' = IF outcome = "zero"
                     THEN Put(fs, dest, Resource(OtherFormat(kind)))
                     ELSE fs
           /\ hist' = HistRun(IF outcome = "exception"
                              THEN hist
                              ELSE HistOutput(hist, u, "convert"), f, outcome)
           /\ IF ExitStatus(outcome) = "converted" /\ delete_original
              THEN /\ workers' = (workers \ {u}) \cup {[u EXCEPT !.pc = "delete"]}
                   /\ results' = results
              ELSE /\ workers' = workers \ {u}
                   /\ results' = results \cup
                         {[status |-> ExitStatus(outcome), path |-> f]}
    /\ UNCHANGED <<cfgVars, catVars, sigVars, total_files, tasks, num_processes,
                   processed_count, files_modified, tally, running, pc, runNo>>

\* Lines 55-61 / 427-433: os.remove(source_path); an OSError is logged.
ConvDelete(u) ==
    /\ kind \in {"lsx", "lsf"} /\ pc = "loop"
    /\ u \in workers /\ u.pc = "delete"
    /\ LET f == u.path
       IN  /\ fs' = IF f \in readonly THEN fs ELSE Remove(fs, f)
           /\ hist' = IF f \in readonly
                      THEN hist
                      ELSE HistRemove(HistOutput(hist, u, "delete"), f)
           /\ workers' = workers \ {u}
           /\ results' = results \cup {[status |-> "converted", path |-> f]}
    /\ UNCHANGED <<cfgVars, catVars, sigVars, total_files, tasks, num_processes,
                   processed_count, files_modified, tally, running, pc, runNo>>

\* Lines 142-159 / 510-527: one turn of the loop over results_iterator; the
\* break leaves the with block, whose exit terminates the pool.
ConvConsume(result_dict) ==
    /\ kind \in {"lsx", "lsf"} /\ pc = "loop"
    /\ result_dict \in results
    /\ processed_count' = processed_count + 1
    /\ IF Canceled(running)
       THEN /\ workers' = {}
            /\ hist' = [hist EXCEPT !.killed = @ \cup KilledUnits(workers)]
            /\ tasks' = {}
            /\ results' = {}
            /\ pc' = "after_loop"
            /\ UNCHANGED <<tally, progress_percent>>
       ELSE LET status == result_dict.status
            IN  /\ tally' =
                      [converted_files |-> tally.converted_files +
                            (IF status = "converted" THEN 1 ELSE 0),
                       skipped_files |-> tally.skipped_files +
                            (IF status = "skipped" THEN 1 ELSE 0),
                       error_files |-> IF status = "error"
                                       THEN Append(tally.error_files, result_dict.path)
                                       ELSE tally.error_files]
                /\ progress_percent' =
                      Append(progress_percent, Percent(processed_count + 1, total_files))
                /\ results' = results \ {result_dict}
                /\ pc' = IF processed_count + 1 = total_files THEN "after_loop" ELSE "loop"
                /\ UNCHANGED <<workers, tasks, hist>>
    /\ UNCHANGED <<cfgVars, catVars, total_files, num_processes, files_modified,
                   finished_signal, error_signal, fs, running, runNo>>

\* Lines 164-177 / 532-543: the last progress value and the final result.
ConvAfterLoop ==
    /\ kind \in {"lsx", "lsf"} /\ pc = "after_loop"
    /\ progress_percent' =
          IF running /\ processed_count = total_files
          THEN Append(progress_percent, 100)
          ELSE IF ~running
          THEN Append(progress_percent, Percent(processed_count, total_files))
          ELSE progress_percent
    /\ finished_signal' = Append(finished_signal,
          [converted_files |-> tally.converted_files,
           skipped_files |-> tally.skipped_files,
           error_files |-> tally.error_files,
           total_scanned |-> processed_count])
    /\ pc' = RunEnd
    /\ UNCHANGED <<cfgVars, catVars, poolVars, error_signal, fs, running,
                   runNo, hist>>

(***************************************************************************)
(* Initial states: the files on disk and the worker's constructor          *)
(* arguments.                                                              *)
(***************************************************************************)
Cuid(uid, ws, version) == [t |-> "cuid", uid |-> uid, ws |-> ws, version |-> version]
IdAttr(uid, version) == [t |-> "id", uid |-> uid, version |-> version]
Quoted(uid) == [t |-> "quoted", uid |-> uid]
Word(s) == [t |-> "word", s |-> s]
Ws(s) == [t |-> "ws", s |-> s]
Attr(uid, version, tail) == [t |-> "attr", uid |-> uid, version |-> version, tail |-> tail]
Handle(uid, ws1, ws2, version) ==
    [t |-> "handle", uid |-> uid, ws1 |-> ws1, ws2 |-> ws2, version |-> version]
Garbage == <<[t |-> "garbage"]>>

OrigFile == MkPath(<<"Orig">>, <<"english", "xml">>)
NewFileOutside == MkPath(<<"Work">>, <<"new", "xml">>)
NewFileInTree == MkPath(<<"Mods">>, <<"new", "xml">>)
NewFileEnglish == MkPath(<<"Mods", "Loc">>, <<"english", "xml">>)
FileA == MkPath(<<"Mods">>, <<"a", "txt">>)

\* All sequences over S of length lo..hi.
SeqsOf(S, lo, hi) == UNION {[1..n -> S] : n \in lo..hi}

\* All subsets of S with at most n members.
SubsetsUpTo(S, n) == {T \in SUBSET S : Cardinality(T) <= n}

FsOf(files) == [p \in {x.path : x \in files} |-> (CHOOSE x \in files : x.path = p).content]

File(p, c) == [path |-> p, content |-> c]

\* Files that may lie in the search directory of a patch run.
XmlTreePool ==
    { File(FileA, <<Cuid("h1", "sp", "2")>>),
      File(BackupPath(FileA), <<Cuid("h1", "sp", "2")>>),
      File(MkPath(<<"Mods", "Loc">>, <<"English", "XML">>),
           <<Root, Elem("h1", "sp", "2", "Hello")>>),
      File(MkPath(<<"Mods">>, <<"b", "lsx">>),
           <<[t |-> "node"], Ws("nl"), Attr("h1", "2", "sp_slash")>>),
      File(MkPath(<<"Mods">>, <<"c", "lsj">>),
           <<[t |-> "tagopen"], Ws("nl"), Handle("h1", "nl", "nl", "2"), Ws("nl"),
             [t |-> "close"]>>),
      File(MkPath(<<"Mods">>, <<"d", "txt">>), <<Word("h10")>>),
      File(MkPath(<<"Mods", ".git">>, <<"cfg">>), <<Quoted("h1")>>),
      File(MkPath(<<"Mods">>, <<"e", "PAK">>), <<Cuid("h1", "sp", "2")>>),
      File(MkPath(<<"Mods">>, <<"g", "txt">>), <<Quoted("h2")>>),
      File(MkPath(<<"Mods">>, <<"i", "txt">>), <<IdAttr("h1", "2")>>),
      File(MkPath(<<"Mods", "Tools">>, <<"t", "txt">>), <<Quoted("h2")>>),
      File(MkPath(<<"Mods">>, <<"", "gitignore">>), <<Quoted("h1")>>),
      File(MkPath(<<"Mods">>, <<"k", "txt">>), <<Cuid("h1", "nl", "1")>>) }

\* Does the tree hold a file below a subdirectory of the search directory?
HasSubdirFile(tree) == \E x \in tree : Len(x.path.dir) > Len(search_dir)

\* Catalogs of the patch runs: the original holds h1 at version "1"; the new
\* XML holds h1 at version "2" with the same text, and may hold h1 a second
\* time with another text.
PipeOriginal == <<Root, Elem("h1", "sp", "1", "Hello")>>
PipeNew ==
    { <<Root, Elem("h1", "sp", "2", "Hello")>>,
      <<Root, Elem("h1", "sp", "2", "Hello"), Elem("h1", "sp", "3", "Changed")>> }

\* Elements of the catalogs of the reconciliation runs.
ReconOriginalElems ==
    { Elem("h1", "sp", "1", "Hello"), Elem("h1", "sp", "2", "Hello"),
      Elem("h1", "sp", "1", None), Elem("h1", "sp", NoAttr, "Hello"),
      Elem(NoAttr, "sp", "1", "Hello") }
ReconNewElems ==
    { Elem("h1", "sp", "2", "Hello"), Elem("h1", "sp", "2", "Changed"),
      Elem("h1", "sp", "2", None), Elem("h1", "sp", NoAttr, "Hello"),
      Elem("h1", "sp", "", "Hello"), Elem(NoAttr, "sp", "2", "Hello"),
      Child("h3", "sp", "2", "Bye"), Child(NoAttr, "sp", "2", "Hello") }

\* The catalogs with up to MaxEntries of the elements es, the first of them
\* a child of the root.
Catalogs(es) ==
    {<<Root>> \o q : q \in {r \in SeqsOf(es, 0, MaxEntries) :
                                Len(r) >= 1 => r[1].depth = 1}}

InitCommon ==
    /\ running = TRUE
    /\ pc = "start"
    /\ original_contents = EmptyDict
    /\ new_contents = EmptyDict
    /\ new_tree = [elems |-> <<>>, removed |-> {}]
    /\ nodes_to_delete = <<>>
    /\ replacements = <<>>
    /\ total_files = 0
    /\ tasks = {}
    /\ num_processes = 0
    /\ workers = {}
    /\ results = {}
    /\ processed_count = 0
    /\ files_modified = -1
    /\ tally = [errors |-> 0, unmodified |-> 0]
    /\ progress_percent = <<>>
    /\ finished_signal = <<>>
    /\ error_signal = 0
    /\ runNo = 1
    /\ hist = HistInit

\* Reconciliation runs: catalogs of up to MaxEntries elements, together at
\* most MaxEntries + 1, and at most the file a.txt in the search directory.
InitRecon ==
    /\ kind = "xml"
    /\ original_file = OrigFile
    /\ new_file = NewFileOutside
    /\ recursive = TRUE
    /\ backup \in BOOLEAN
    /\ processes = 1
    /\ divine_exists = TRUE
    /\ \E oc \in Catalogs(ReconOriginalElems) \cup {Garbage},
          nc \in Catalogs(ReconNewElems) \cup {Garbage, <<>>},
          tree \in SubsetsUpTo({File(FileA, <<Cuid("h1", "sp", "2")>>)}, MaxFiles) :
          /\ (oc = Garbage => nc = <<Root>>)
          /\ (Parseable(oc) /\ Parseable(nc) =>
                (Len(oc) - 1) + (Len(nc) - 1) <= MaxEntries + 1)
          /\ (tree # {} => Len(oc) <= 3 /\ Len(nc) <= 2)
          /\ fs = Put(Put(FsOf(tree), original_file, oc), new_file, nc)
    /\ readonly = {}
    /\ InitCommon

\* Patch runs: the new XML lies outside the search directory, which holds up
\* to MaxFiles files; the non-recursive scan, the files that cannot be
\* written and the second new XML are tried on trees of up to two files.
InitPatch ==
    /\ kind = "xml"
    /\ original_file = OrigFile
    /\ new_file = NewFileOutside
    /\ backup \in BOOLEAN
    /\ processes \in 1..MaxProcs
    /\ divine_exists = TRUE
    /\ \E tree \in SubsetsUpTo(XmlTreePool, MaxFiles), nc \in PipeNew :
          /\ tree # {}
          /\ recursive \in (IF HasSubdirFile(tree) /\ Cardinality(tree) <= 2
                            THEN BOOLEAN ELSE {TRUE})
          /\ readonly \in {{}} \cup
                (IF FileA \in {x.path : x \in tree} /\ Cardinality(tree) <= 2
                 THEN {{FileA}, {BackupPath(FileA)}} ELSE {})
          /\ (Cardinality(tree) > 2 => nc = <<Root, Elem("h1", "sp", "2", "Hello")>>)
          /\ processes <= Cardinality(tree)
          /\ fs = Put(Put(FsOf(tree), original_file, PipeOriginal), new_file, nc)
    /\ InitCommon

\* Patch runs whose new XML lies in the search directory, under a free name
\* or under the reserved name.
InitCatalogInTree ==
    /\ kind = "xml"
    /\ original_file = OrigFile
    /\ new_file \in {NewFileInTree, NewFileEnglish}
    /\ recursive = TRUE
    /\ backup \in BOOLEAN
    /\ processes \in 1..MaxProcs
    /\ divine_exists = TRUE
    /\ \E tree \in SubsetsUpTo({File(FileA, <<Cuid("h1", "sp", "2")>>)}, MaxFiles - 1),
          nc \in PipeNew :
          fs = Put(Put(FsOf(tree), original_file, PipeOriginal), new_file, nc)
    /\ readonly \in {{}, {new_file}, {BackupPath(new_file)}}
    /\ InitCommon

InitXml == InitRecon \/ InitPatch \/ InitCatalogInTree

\* Files that may lie in the search directory of a conversion run.
ConvTreePool(ext) ==
    { File(MkPath(<<"Mods">>, <<"a", ext>>), Resource(ext)),
      File(MkPath(<<"Mods", "Sub">>, <<"b", ext>>), Resource(ext)),
      File(MkPath(<<"Mods">>, <<"Meta", ext>>), Resource(ext)),
      File(MkPath(<<"Mods", "Tools">>, <<"t", ext>>), Resource(ext)),
      File(MkPath(<<"Mods", ".git">>, <<"x", ext>>), Resource(ext)),
      File(MkPath(<<"Mods">>, <<"n", "txt">>), <<Word("note")>>) }

InitConv ==
    /\ kind \in {"lsx", "lsf"}
    /\ original_file = OrigFile
    /\ new_file = NewFileOutside
    /\ recursive \in BOOLEAN
    /\ backup = TRUE
    /\ processes \in 1..MaxProcs
    /\ divine_exists \in BOOLEAN
    /\ \E tree \in SubsetsUpTo(ConvTreePool(kind), MaxFiles) : fs = FsOf(tree)
    /\ readonly \in {{}, {MkPath(<<"Mods">>, <<"a", kind>>)}}
    /\ InitCommon

Init == InitXml \/ InitConv

NextXml ==
    \/ Stop
    \/ XmlParseError
    \/ XmlRead
    \/ XmlSave
    \/ XmlReplaceBegin
    \/ XmlPoolError
    \/ \E result \in results : XmlConsume(result)
    \/ XmlAfterLoop
    \/ XmlFinish
    \/ \E f \in tasks : PatchTake(f)
    \/ \E u \in workers : PatchBackup(u)
    \/ \E u \in workers : PatchOpen(u)
    \/ \E u \in workers : PatchWrite(u)

NextConv ==
    \/ ConvBegin
    \/ ConvPoolError
    \/ \E result_dict \in results : ConvConsume(result_dict)
    \/ ConvAfterLoop
    \/ \E f \in tasks : ConvTake(f)
    \/ \E u \in workers, outcome \in {"zero", "nonzero", "exception"} : ConvRun(u, outcome)
    \/ \E u \in workers : ConvDelete(u)

Next == NextXml \/ NextConv

Spec == Init /\ [][Next]_vars

\* Runs whose patch stage is called a second time.  With backups the first
\* call adds one file to the tree for every file it touches.
InitRerun ==
    /\ kind = "xml"
    /\ original_file = OrigFile
    /\ new_file = NewFileOutside
    /\ recursive = TRUE
    /\ backup \in BOOLEAN
    /\ processes \in 1..MaxProcs
    /\ divine_exists = TRUE
    /\ \E tree \in SubsetsUpTo(XmlTreePool, MaxFiles), nc \in PipeNew \cup {Garbage} :
          /\ tree # {}
          /\ (backup => Cardinality(tree) < MaxFiles)
          /\ (Cardinality(tree) < 2 /\ ~backup => processes = 1)
          /\ fs = Put(Put(FsOf(tree), original_file, PipeOriginal), new_file, nc)
    /\ readonly = {}
    /\ InitCommon

NextRerun == NextXml \/ Rerun

SpecRerun == InitRerun /\ [][NextRerun]_vars


(***************************************************************************)
(* Properties.                                                             *)
(***************************************************************************)
InSeq(x, q) == \E i \in 1..Len(q) : q[i] = x

\* The content elements of the original XML file with a contentuid, and the
\* last of them that carries the contentuid uid.
OriginalEntries ==
    LET c == fs[original_file]
    IN  IF Parseable(c) THEN {c[i] : i \in 2..Len(c)} \ {e \in {c[i] : i \in 2..Len(c)} : e.uid = NoAttr}
        ELSE {}

OriginalHas(uid) == \E e \in OriginalEntries : e.uid = uid

OriginalEntry(uid) ==
    LET c == fs[original_file]
        last == CHOOSE i \in 2..Len(c) :
                    c[i].uid = uid /\ \A j \in (i + 1)..Len(c) : c[j].uid # uid
    IN  c[last]

\* Element n of the new XML as read is marked: its node is queued for
\* deletion and its id is a key of the replacement map.
Marked(n) ==
    /\ InSeq(n, nodes_to_delete)
    /\ new_tree.elems[n].uid \in DictKeys(replacements)

\* C1: after reconciliation an element of the new XML is marked for revert
\* (node queued for deletion, id in the replacement map) exactly when its id
\* is in the original XML, its text equals the original entry's text and its
\* version differs from the original entry's version.
C1_MarkedIffSameTextOtherVersion ==
    kind = "xml" =>
        \A n \in 1..Len(new_tree.elems) :
            LET e == new_tree.elems[n]
            IN  Marked(n) <=>
                    /\ e.uid # NoAttr
                    /\ OriginalHas(e.uid)
                    /\ e.text = OriginalEntry(e.uid).text
                    /\ AttribGetVersion(e) # AttribGetVersion(OriginalEntry(e.uid))

\* C1 witness: reconciliation has marked one element of the new XML and has
\* left another one, whose id is in the original XML too, unmarked.
C1_Witness ==
    /\ kind = "xml" /\ pc = "save"
    /\ \E n, m \in 1..Len(new_tree.elems) :
          /\ Marked(n)
          /\ ~InSeq(m, nodes_to_delete)
          /\ new_tree.elems[m].uid # NoAttr
          /\ OriginalHas(new_tree.elems[m].uid)

\* C2: an id that has, in the new XML, an entry whose text differs from the
\* original entry's text is never a key of the replacement map, and no file
\* holding that id is rewritten by the patch stage.
C2_ChangedTextNeverReverted ==
    kind = "xml" =>
        \A n \in 1..Len(new_tree.elems) :
            LET e == new_tree.elems[n]
            IN  (e.uid # NoAttr /\ OriginalHas(e.uid)
                    /\ e.text # OriginalEntry(e.uid).text) =>
                    /\ e.uid \notin DictKeys(replacements)
                    /\ \A p \in hist.patched : ~UidInContent(e.uid, hist.pre[p])

\* C3: the second call of the patch stage, with the same replacement map on
\* the tree the first call left behind, rewrites no file.
C3_SecondPatchRunModifiesNothing ==
    runNo = 2 => hist.patched = {}

\* C4: at the end of an uncancelled run with backups, every file the run has
\* written has a backup file whose content is the content the file had just
\* before it was written.
C4_BackupHoldsPreWriteContent ==
    (kind = "xml" /\ pc = "done" /\ backup /\ running) =>
        \A p \in DOMAIN hist.pre :
            /\ BackupPath(p) \in DOMAIN fs
            /\ fs[BackupPath(p)] = hist.pre[p]

\* C5: no backup file the run has created is written again in that run.
C5_BackupWrittenOnce ==
    hist.rewritten = {}

\* C6: the patch stage neither writes nor backs up a file whose name is
\* english.xml in any letter case.
C6_ReservedNameUntouched ==
    kind = "xml" =>
        \A p \in hist.patched \cup hist.backedUp : ~IsEnglishXml(p)

\* C6 witness: the patch stage has run to its end and has rewritten a file,
\* while the tree holds a file named english.xml with an id of the
\* replacement map in it.
C6_Witness ==
    /\ kind = "xml" /\ pc = "done"
    /\ hist.patched # {}
    /\ \E p \in DOMAIN fs :
          /\ IsEnglishXml(p) /\ UnderSearchDir(p, recursive)
          /\ p # new_file
          /\ NeedsUpdate(fs[p], replacements)

\* The number of content elements in the text of a file.
ContentCount(c) == Cardinality({i \in 1..Len(c) : c[i].t = "content"})

\* C7: when the run has emitted its result, nodes_deleted is the number of
\* content elements the new XML had before the run less the number it has
\* in the file after the run.
C7_NodesDeletedIsEntriesAbsent ==
    (kind = "xml" /\ pc = "done" /\ Len(finished_signal) >= 1) =>
        finished_signal[1].nodes_deleted =
            Len(new_tree.elems) - ContentCount(fs[new_file])

\* C8: a unit the pool started after stop() was called writes no file, makes
\* no backup, does not launch the converter and deletes no file.
C8_NoOutputFromUnitsStartedAfterStop ==
    hist.lateOutput = {}

\* C9: the counts of the final summary do not exceed the number of units:
\* modified + errors + unmodified <= total_files for the patch stage, and
\* converted + skipped + error files <= total_scanned <= total_files for a
\* conversion.
C9_CountsBoundedByUnits ==
    /\ (kind = "xml" /\ pc = "done" /\ files_modified # -1) =>
          /\ files_modified + tally.errors + tally.unmodified <= total_files
          /\ files_modified + tally.errors + tally.unmodified = processed_count
    /\ (kind \in {"lsx", "lsf"} /\ Len(finished_signal) >= 1) =>
          LET r == finished_signal[1]
          IN  /\ r.converted_files + r.skipped_files + Len(r.error_files)
                    <= r.total_scanned
              /\ r.total_scanned <= total_files

\* C9 witness: a cancelled patch stage has ended after it counted a modified
\* file while units were left over.
C9_Witness ==
    /\ kind = "xml" /\ pc = "done" /\ ~running
    /\ files_modified >= 1
    /\ processed_count < total_files

\* C10: the pool is never torn down while a worker is between opening its
\* target file for writing and the end of the write.
C10_NoWriteInterrupted ==
    \A k \in hist.killed : k.at # "flush"

\* C11: a run that has ended has emitted either its result and no error, or
\* one error and no result.
C11_ExactlyOneOutcome ==
    pc = "done" =>
        \/ (Len(finished_signal) = 1 /\ error_signal = 0)
        \/ (Len(finished_signal) = 0 /\ error_signal = 1)

\* A catalog file that ET.parse rejects: empty, or not an XML document.
Malformed(c) == c = <<>> \/ c = Garbage

\* One of the two catalogs of the run is malformed; the new XML counts only
\* while no worker has opened it for writing.
BadCatalog ==
    \/ Malformed(fs[original_file])
    \/ (Malformed(fs[new_file]) /\ new_file \notin hist.patched)

\* C12: a run over a malformed catalog does nothing but report one error:
\* it writes no file, makes no backup, hands no file to the patcher and
\* emits no result.
C12_ParseErrorBeforeAnyMutation ==
    (kind = "xml" /\ BadCatalog) =>
        /\ pc \in {"start", "done"}
        /\ hist = HistInit
        /\ tasks = {} /\ workers = {} /\ results = {} /\ total_files = 0
        /\ finished_signal = <<>>
        /\ error_signal = (IF pc = "done" THEN 1 ELSE 0)

\* C12 witness: the run has ended on the error of a malformed new XML while
\* the search directory holds a file with an id of the original XML.
C12_Witness ==
    /\ kind = "xml" /\ pc = "done"
    /\ Malformed(fs[new_file])
    /\ error_signal = 1
    /\ \E p \in DOMAIN fs : UnderSearchDir(p, recursive) /\ UidInContent("h1", fs[p])

\* Some id of the replacement map is a substring of the content c.
HoldsReplacementId(c) ==
    \E n \in 1..Len(replacements) : UidInContent(replacements[n].k, c)

\* C13: the result of a file whose processing raised carries the error - here
\* the file whose backup copy cannot be written - and a failure of one file
\* neither stops the batch nor keeps the run from emitting its result.
C13_FileFailureIsolatedAndReported ==
    kind = "xml" =>
        /\ \A r \in results :
              (/\ backup
               /\ BackupPath(r.file_path) \in readonly
               /\ r.file_path \in DOMAIN fs
               /\ ~GitInStr(r.file_path)
               /\ Suffix(r.file_path) \notin BinaryExtensions
               /\ HoldsReplacementId(fs[r.file_path])) => r.error
        /\ (pc = "done" /\ running /\ total_files > 0 /\ error_signal = 0) =>
              (processed_count = total_files /\ Len(finished_signal) = 1)

\* C14: a run with no eligible file - an empty replacement map or no
\* candidate file in the patch run, no file to scan in a conversion - has
\* emitted the progress value 100 and a result whose file counts are zero.
C14_ZeroFilesCompletesAtHundred ==
    pc = "done" =>
        /\ (kind = "xml" /\ Len(finished_signal) = 1 /\ total_files = 0) =>
              /\ InSeq(100, progress_percent)
              /\ finished_signal[1].files_modified = 0
        /\ (kind \in {"lsx", "lsf"} /\ divine_exists /\ total_files = 0) =>
              /\ InSeq(100, progress_percent)
              /\ finished_signal = <<ZeroResult>>

\* C15: a run with no work to do still emits its result with every key: a
\* patch run with nothing to revert emits nodes_deleted, replacements and
\* files_modified, all zero; a conversion that finds no file emits
\* converted_files, skipped_files, error_files and total_scanned, all zero.
C15_ResultEmittedForZeroWork ==
    pc = "done" =>
        /\ (/\ kind = "xml"
            /\ ~Malformed(fs[original_file]) /\ ~Malformed(fs[new_file])
            /\ replacements = <<>>) =>
              /\ Len(finished_signal) = 1
              /\ DOMAIN finished_signal[1] =
                    {"nodes_deleted", "replacements", "files_modified"}
              /\ \A key \in DOMAIN finished_signal[1] : finished_signal[1][key] = 0
        /\ (kind \in {"lsx", "lsf"} /\ divine_exists /\ total_files = 0) =>
              /\ Len(finished_signal) = 1
              /\ DOMAIN finished_signal[1] =
                    {"converted_files", "skipped_files", "error_files",
                     "total_scanned"}
              /\ finished_signal[1].converted_files = 0
              /\ finished_signal[1].skipped_files = 0
              /\ finished_signal[1].error_files = <<>>
              /\ finished_signal[1].total_scanned = 0

\* C15 witness: a patch run over two well-formed catalogs with entries in
\* both has ended with nothing to revert.
C15_Witness ==
    /\ kind = "xml" /\ pc = "done"
    /\ replacements = <<>>
    /\ Len(new_tree.elems) >= 1
    /\ original_contents # EmptyDict
    /\ Len(finished_signal) = 1

\* C16: the progress values emitted so far never decrease and each is one of
\* 0..100.
C16_ProgressMonotone ==
    /\ \A i \in 1..Len(progress_percent) : progress_percent[i] \in 0..100
    /\ \A i, j \in 1..Len(progress_percent) :
          i < j => progress_percent[i] <= progress_percent[j]

\* C16 witness: a run cancelled in the middle of its batch has ended after
\* it emitted two progress values or more.
C16_Witness ==
    /\ pc = "done" /\ ~running
    /\ Len(progress_percent) >= 2
    /\ processed_count < total_files

\* The paths of the units the workers are inside, and of the results that
\* wait for the consuming loop.
InFlight == {u.path : u \in workers}
Waiting == {r.file_path : r \in results}

C18_IdVersionReverted ==
    (/\ kind = "xml" /\ pc = "done" /\ running /\ error_signal = 0
     /\ "h1" \in DictKeys(replacements)
     /\ original_contents["h1"].version = "1") =>
        \A p \in FilteredFiles(fs, recursive) :
            (/\ Suffix(p) \notin BinaryExtensions
             /\ p \notin readonly
             /\ p # new_file
             /\ p.name[Len(p.name)] # "backup") =>
                \A i \in 1..Len(fs[p]) :
                    (fs[p][i].t \in {"id", "cuid"} /\ fs[p][i].uid = "h1"
                        /\ fs[p][i].version # NoAttr) => fs[p][i].version = "1"

\* C19: only a file whose content holds an id of the replacement map gets
\* past the patcher's test: every unit inside a worker read such a content,
\* and a file without any of the ids has no backup made and is not opened
\* for writing.
C19_NoIdNoWork ==
    (kind = "xml" /\ runNo = 1) =>
        /\ \A u \in workers : HoldsReplacementId(u.content)
        /\ \A p \in hist.taken \ (hist.patched \cup hist.backedUp \cup InFlight) :
              (p \in DOMAIN fs /\ ~HoldsReplacementId(fs[p])) =>
                  (p \in Waiting => Unmodified(p) \in results)
        /\ \A p \in hist.patched \cup hist.backedUp :
              p \in DOMAIN hist.pre => HoldsReplacementId(hist.pre[p])

\* C19 witness: with backups on, the patcher has returned the unmodified
\* result for a file that holds no id of the map, and the file has no backup.
C19_Witness ==
    /\ kind = "xml" /\ pc = "loop" /\ backup
    /\ \E r \in results :
          /\ r = Unmodified(r.file_path)
          /\ ~GitInStr(r.file_path)
          /\ Suffix(r.file_path) \notin BinaryExtensions
          /\ ~HoldsReplacementId(fs[r.file_path])
          /\ BackupPath(r.file_path) \notin DOMAIN fs

\* C20: the patcher opens a file for writing only when the content it
\* computed differs from the content it read, and a result says modified
\* exactly when the file was written and the write did not fail.
C20_WrittenOnlyIfChanged ==
    (kind = "xml" /\ runNo = 1) =>
        /\ \A u \in workers :
              u.pc \in {"open", "flush"} => u.modified_content # u.content
        /\ \A r \in results :
              r.modified <=> (r.file_path \in hist.patched /\ ~r.error)

\* C20 witness: with backups on, a file that holds an id as part of a longer
\* word has been backed up, was not written, and its result is unmodified.
C20_Witness ==
    /\ kind = "xml" /\ pc = "loop" /\ backup
    /\ \E r \in results :
          /\ ~r.modified /\ ~r.error
          /\ HoldsReplacementId(fs[r.file_path])
          /\ r.file_path \in hist.backedUp
          /\ r.file_path \notin hist.patched

\* The path p lies below a directory named d.
UnderSubtree(p, d) == \E i \in 1..Len(p.dir) : p.dir[i] = d

\* The scan of a run has to leave the path p out: it lies below .git or
\* below Tools or, in a patch run, it is named english.xml.
MustBeExcluded(p) ==
    \/ UnderSubtree(p, ".git")
    \/ UnderSubtree(p, "Tools")
    \/ (kind = "xml" /\ IsEnglishXml(p))

\* The files of the search directory the scan of the run looks for.
ScanPattern(p) ==
    /\ UnderSearchDir(p, recursive)
    /\ (kind \in {"lsx", "lsf"} => GlobMatch(p, kind))

\* C21: when the pool starts, the files waiting for a worker are the files
\* of the search directory that lie neither below .git nor below Tools and,
\* in a patch run, are not named english.xml: none of those is waiting, and
\* no other file is left out.
C21_ScanExcludesExactlyTheSubtrees ==
    (pc = "loop" /\ runNo = 1 /\ processed_count = 0 /\ workers = {}
        /\ results = {} /\ Cardinality(tasks) = total_files) =>
        tasks = {p \in DOMAIN fs : ScanPattern(p) /\ ~MustBeExcluded(p)}

\* C22: with backups on, the backup path of a unit inside a worker is never
\* the target path of another unit inside a worker.
C22_BackupPathNotAnotherTarget ==
    (kind = "xml" /\ backup) =>
        \A u, v \in workers : BackupPath(u.path) # v.path

\* The name of p is meta.lsx in an LSX run, meta.lsf in an LSF run, in any
\* mix of upper and lower case.
ReservedName(p) ==
    /\ kind \in {"lsx", "lsf"}
    /\ Len(p.name) = 2
    /\ p.name[1] \in {"meta", "Meta", "META"}
    /\ p.name[2] = kind

\* The conversion run came to its end uncancelled and without an error
\* signal.
ConvCompleted ==
    /\ kind \in {"lsx", "lsf"} /\ pc = "done" /\ running
    /\ error_signal = 0 /\ Len(finished_signal) = 1 /\ total_files > 0

\* The conversion loop has set up its counters.
InConvLoop == kind \in {"lsx", "lsf"} /\ pc \in {"loop", "after_loop"}

\* C23: in a conversion run Divine.exe is never run on a file with the
\* reserved name and the file is never deleted; its result is "skipped",
\* and a completed run reports as skipped the reserved-name files it
\* scanned.
C23_MetaAlwaysSkipped ==
    kind \in {"lsx", "lsf"} =>
        /\ \A u \in workers : ~ReservedName(u.path)
        /\ \A p \in DOMAIN hist.ran : ~ReservedName(p)
        /\ \A p \in hist.removed : ~ReservedName(p)
        /\ \A r \in results : ReservedName(r.path) => r.status = "skipped"
        /\ InConvLoop =>
              \A i \in 1..Len(tally.error_files) :
                  ~ReservedName(tally.error_files[i])
        /\ ConvCompleted =>
              finished_signal[1].skipped_files =
                  Cardinality({p \in DOMAIN fs :
                      ScanPattern(p) /\ ~MustBeExcluded(p) /\ ReservedName(p)})

\* A completed run skipped Meta.lsx and converted another file.
C23_Witness ==
    /\ ConvCompleted
    /\ finished_signal[1].skipped_files = 1
    /\ finished_signal[1].converted_files = 1
    /\ \E p \in DOMAIN fs : ReservedName(p) /\ p.name[1] = "Meta"

\* The sources on which Divine.exe ended with exit code 0.
RanZero == {p \in DOMAIN hist.ran : hist.ran[p] = "zero"}

\* The sources on which Divine.exe ended with another exit code or could
\* not be launched.
RanFailed == {p \in DOMAIN hist.ran : hist.ran[p] # "zero"}

\* C24: a result is "converted" exactly when Divine.exe exited with 0 on
\* its file and "error" exactly when it exited with another code or could
\* not be launched; the failed files are what error_files collects, and an
\* uncancelled run goes through all its files and reports exactly the
\* zero exits as converted and exactly the failures in error_files.
C24_ConvertedIffExitZero ==
    kind \in {"lsx", "lsf"} =>
        /\ \A r \in results :
              /\ r.status = "converted" <=> r.path \in RanZero
              /\ r.status = "error" <=> r.path \in RanFailed
        /\ InConvLoop =>
              /\ \A i \in 1..Len(tally.error_files) :
                    tally.error_files[i] \in RanFailed
              /\ tally.converted_files <= Cardinality(RanZero)
        /\ ConvCompleted =>
              /\ processed_count = total_files
              /\ finished_signal[1].converted_files = Cardinality(RanZero)
              /\ {finished_signal[1].error_files[i] :
                      i \in 1..Len(finished_signal[1].error_files)} = RanFailed
              /\ Len(finished_signal[1].error_files) = Cardinality(RanFailed)

\* A completed run of two files: one failed, the other was converted.
C24_Witness ==
    /\ ConvCompleted
    /\ Cardinality(RanZero) = 1
    /\ Cardinality(RanFailed) = 1
    /\ finished_signal[1].total_scanned = 2

\* A source is deleted only after Divine.exe exited with 0 on it and wrote
\* the destination; failed and skipped sources stay on disk.
DeletedOnlyAfterSuccess ==
    kind \in {"lsx", "lsf"} =>
        /\ \A p \in hist.removed :
              /\ p \in RanZero
              /\ WithSuffix(p, OtherFormat(kind)) \in DOMAIN fs
              /\ p \notin DOMAIN fs
        /\ \A p \in RanFailed : p \in DOMAIN fs /\ p \notin hist.removed
        /\ \A r \in results : r.status = "skipped" => r.path \in DOMAIN fs

\* C25: the source of a unit is deleted only after its conversion succeeded
\* and only when the delete flag of its task asks for it, failed and
\* skipped sources are never deleted, and every deletion is one the caller
\* of the run could have turned off: False is among the flags a run can
\* give its tasks.
C25_DeleteOnlyOnSuccessAndOnRequest ==
    /\ DeletedOnlyAfterSuccess
    /\ \A p \in hist.removed :
          delete_original /\ (\E flag \in DeleteFlags : ~flag)

\* The size a batch of submitted units is held to.
BatchSize == 1

\* The units handed to the pool and not yet completed.
Outstanding == Cardinality(tasks) + Cardinality(workers)

\* C26: the units handed to the pool and not yet completed are never more
\* than the batch size, however many candidate files the run has.
C26_OutstandingBoundedByBatch ==
    pc = "loop" => Outstanding <= BatchSize

\* The generic quoted-identifier substitution (pattern 4) applied for the
\* items of the replacement map from item n on.
RECURSIVE GenericOnly(_, _)
GenericOnly(c, n) ==
    IF n > Len(replacements) THEN c
    ELSE GenericOnly(Pattern4(c, replacements[n].k, replacements[n].v), n + 1)

\* C27: the content a worker prepares for a file that is neither .lsx nor
\* .lsj is the content it read with the generic quoted-identifier
\* substitution alone applied for every item of the replacement map; no
\* rule that rewrites a version has touched it.
C27_GenericFileGetsGenericRuleOnly ==
    kind = "xml" =>
        \A u \in workers :
            Suffix(u.path) \notin {"lsx", "lsj"} =>
                u.modified_content = GenericOnly(u.content, 1)

\* The version of a catalog element as the comparison sees it: the empty
\* string for an element without the attribute.
VersionOrEmpty(e) == IF e.version = NoAttr THEN "" ELSE e.version

\* C28: an element of the new XML whose version equals the version of the
\* original entry of its id, a missing version counting as "", is not
\* marked whatever its text; an element with the text of the original
\* entry is marked when one of the two has no version attribute and the
\* other has a non-empty version.
C28_EqualVersionsNoActionMissingIsEmpty ==
    kind = "xml" =>
        \A n \in 1..Len(new_tree.elems) :
            LET e == new_tree.elems[n]
            IN  (e.uid # NoAttr /\ OriginalHas(e.uid)) =>
                    LET o == OriginalEntry(e.uid)
                    IN  /\ VersionOrEmpty(e) = VersionOrEmpty(o) =>
                              ~InSeq(n, nodes_to_delete)
                        /\ ( /\ e.text = o.text
                             /\ \/ e.version = NoAttr /\ o.version \notin {NoAttr, ""}
                                \/ o.version = NoAttr /\ e.version \notin {NoAttr, ""} )
                           => Marked(n)

\* Reconciliation found an original entry without a version and has left
\* an element with version "" unmarked and marked an element with version
\* "2" and the same text.
C28_Witness ==
    /\ kind = "xml" /\ pc = "save"
    /\ \E n, m \in 1..Len(new_tree.elems) :
          LET e == new_tree.elems[n]
              d == new_tree.elems[m]
          IN  /\ e.uid # NoAttr /\ OriginalHas(e.uid) /\ d.uid = e.uid
              /\ OriginalEntry(e.uid).version = NoAttr
              /\ e.version = "" /\ ~InSeq(n, nodes_to_delete)
              /\ d.version = "2" /\ d.text = OriginalEntry(e.uid).text /\ Marked(m)

\* The run ended with an error before it had read the catalogs.
LoadFailed ==
    /\ kind = "xml" /\ pc = "done" /\ error_signal > 0
    /\ finished_signal = <<>> /\ new_tree.elems = <<>>
    /\ original_contents = EmptyDict /\ hist = HistInit

\* The catalog c is well formed and has a content element without
\* contentuid.
HasIdless(c) == Parseable(c) /\ \E i \in 2..Len(c) : c[i].uid = NoAttr

\* An element without contentuid is in no entry map, is not marked, and
\* well-formed catalogs holding such elements do not end the run with an
\* error.
IdlessIgnoredOnLoad ==
    kind = "xml" =>
        /\ NoAttr \notin DOMAIN original_contents
        /\ NoAttr \notin DOMAIN new_contents
        /\ NoAttr \notin DictKeys(replacements)
        /\ \A n \in 1..Len(new_tree.elems) :
              new_tree.elems[n].uid = NoAttr => ~InSeq(n, nodes_to_delete)
        /\ LoadFailed =>
              ~( /\ Parseable(fs[original_file]) /\ Parseable(fs[new_file])
                 /\ HasIdless(fs[original_file]) \/ HasIdless(fs[new_file]) )

\* C29: a content element without contentuid enters neither entry map, is
\* never marked, never leaves the tree of the new XML, and does not make
\* the run fail.
C29_IdlessElementsIgnored ==
    /\ IdlessIgnoredOnLoad
    /\ kind = "xml" =>
          \A n \in 1..Len(new_tree.elems) :
              new_tree.elems[n].uid = NoAttr => n \notin new_tree.removed

\* The run is in its catalog step, or has ended there.
InCatalogStep ==
    /\ kind = "xml" /\ runNo = 1
    /\ pc \in {"start", "save", "replace"} \/ (pc = "done" /\ finished_signal = <<>>)
    /\ total_files = 0 /\ tasks = {} /\ workers = {} /\ results = {}

\* C30: up to the end of the catalog step the only files written are the
\* new XML and, with backups on, its .backup; they are written only when a
\* node was marked, the backup holding what the new XML held before its
\* write; with nothing marked nothing is written, and the original XML is
\* never written.
C30_CatalogWrittenOnlyWhenMarked ==
    InCatalogStep =>
        /\ original_file \notin DOMAIN hist.pre
        /\ original_file \notin hist.created
        /\ DOMAIN hist.pre \subseteq {new_file}
        /\ hist.created \subseteq {BackupPath(new_file)}
        /\ ~backup => hist.created = {}
        /\ nodes_to_delete = <<>> => hist = HistInit
        /\ new_file \in DOMAIN hist.pre =>
              /\ fs[new_file] = Serialize(new_tree)
              /\ backup =>
                    /\ BackupPath(new_file) \in hist.created
                    /\ fs[BackupPath(new_file)] = hist.pre[new_file]
        /\ (pc = "replace" /\ nodes_to_delete # <<>>) => new_file \in DOMAIN hist.pre

\* The catalog step has written the new XML after copying it to its
\* .backup.
C30_Witness ==
    /\ InCatalogStep /\ pc = "replace" /\ backup
    /\ new_file \in DOMAIN hist.pre
    /\ fs[new_file] # hist.pre[new_file]
    /\ fs[BackupPath(new_file)] = hist.pre[new_file]

\* The patch run came to its result uncancelled and without an error
\* signal, after a pool that went through its files.
PatchCompleted ==
    /\ kind = "xml" /\ runNo = 1 /\ pc = "done" /\ running
    /\ error_signal = 0 /\ Len(finished_signal) = 1
    /\ total_files > 0 /\ hist.killed = {}

\* The files a worker of the patch run wrote whose content on disk is not
\* the content they had when the worker opened them.
ChangedOnDisk == {p \in hist.patched : fs[p] # hist.pre[p]}

\* The reported files_modified is the number of results with modified =
\* true, whatever the order in which the workers completed.
FilesModifiedCountsResults ==
    PatchCompleted =>
        finished_signal[1].files_modified = Cardinality(hist.patched)

\* C31: in a patch run that is not canceled the reported files_modified is
\* the number of results with modified = true and is the number of files
\* of the tree whose content on disk the run changed, in every order of
\* completion of the workers.
C31_FilesModifiedIsFilesChanged ==
    /\ FilesModifiedCountsResults
    /\ PatchCompleted =>
          finished_signal[1].files_modified = Cardinality(ChangedOnDisk)

\* The phases of a run in their order: reading the catalogs, saving,
\* scanning, dispatching (the pool loop), aggregating (the final progress
\* value and the summary), terminal.
PhaseRank(p) ==
    CASE p = "start" -> 0
      [] p = "save" -> 1
      [] p = "replace" -> 2
      [] p = "loop" -> 3
      [] p \in {"after_loop", "finish"} -> 4
      [] OTHER -> 5

\* C32: a run never goes back to an earlier phase; the step that emits the
\* final result ends the run with no unit left in a worker, and once the
\* result is emitted no progress value, error or result is emitted, no
\* file is written and the run stays in its terminal state.
C32_ResultIsLastEvent ==
    [][ /\ PhaseRank(pc') >= PhaseRank(pc)
        /\ finished_signal' # finished_signal =>
              pc' = "done" /\ workers' = {} /\ tasks' = {}
        /\ finished_signal # <<>> =>
              /\ pc = "done" /\ pc' = "done"
              /\ UNCHANGED <<progress_percent, finished_signal, error_signal, fs>> ]_vars

\* A canceled run has emitted its partial result and rests in its terminal
\* state, past the scan, the pool loop and the summary.
C32_Witness ==
    /\ pc = "done" /\ ~running
    /\ Len(finished_signal) = 1
    /\ Len(progress_percent) >= 2
    /\ processed_count >= 1 /\ processed_count < total_files

\* The steps of the run itself: everything but stop(), which belongs to
\* the GUI thread.
RunStep ==
    \/ XmlParseError \/ XmlRead \/ XmlSave \/ XmlReplaceBegin \/ XmlPoolError
    \/ \E result \in results : XmlConsume(result)
    \/ XmlAfterLoop \/ XmlFinish
    \/ \E f \in tasks : PatchTake(f)
    \/ \E u \in workers : PatchBackup(u)
    \/ \E u \in workers : PatchOpen(u)
    \/ \E u \in workers : PatchWrite(u)
    \/ ConvBegin \/ ConvPoolError
    \/ \E result_dict \in results : ConvConsume(result_dict)
    \/ ConvAfterLoop
    \/ \E f \in tasks : ConvTake(f)
    \/ \E u \in workers, outcome \in {"zero", "nonzero", "exception"} : ConvRun(u, outcome)
    \/ \E u \in workers : ConvDelete(u)

\* Runs for the liveness of cancellation: a patch run over up to MaxFiles of
\* three files, with the catalogs of the patch runs or a malformed new XML,
\* and a conversion run over up to MaxFiles of three files.
InitLive ==
    /\ original_file = OrigFile
    /\ new_file = NewFileOutside
    /\ recursive = TRUE
    /\ divine_exists = TRUE
    /\ readonly = {}
    /\ processes \in 1..MaxProcs
    /\ \/ /\ kind = "xml"
          /\ backup \in BOOLEAN
          /\ \E tree \in SubsetsUpTo(
                    { File(FileA, <<Cuid("h1", "sp", "2")>>),
                      File(MkPath(<<"Mods">>, <<"b", "lsx">>), <<Cuid("h1", "sp", "2")>>),
                      File(MkPath(<<"Mods">>, <<"g", "txt">>), <<Quoted("h2")>>) },
                    MaxFiles),
                nc \in {<<Root, Elem("h1", "sp", "2", "Hello")>>, Garbage} :
                /\ tree # {}
                /\ processes <= Cardinality(tree)
                /\ fs = Put(Put(FsOf(tree), original_file, PipeOriginal), new_file, nc)
       \/ /\ kind \in {"lsx", "lsf"}
          /\ backup = TRUE
          /\ \E tree \in SubsetsUpTo(
                    { File(MkPath(<<"Mods">>, <<"a", kind>>), Resource(kind)),
                      File(MkPath(<<"Mods", "Sub">>, <<"b", kind>>), Resource(kind)),
                      File(MkPath(<<"Mods">>, <<"Meta", kind>>), Resource(kind)) },
                    MaxFiles) :
                /\ tree # {}
                /\ processes <= Cardinality(tree)
                /\ fs = FsOf(tree)
    /\ InitCommon

\* The run thread and the pool workers keep running: a started unit
\* finishes, a finished unit's result reaches the loop.
SpecLive == InitLive /\ [][Next]_vars /\ WF_vars(RunStep)

\* stop() has been called and the loop over the results is not over.
CancelPending == ~running /\ pc = "loop"

\* C33: when stop() has been called while the loop over the results is not
\* over, the run counts no further result and eventually emits its final
\* summary and ends.
C33_CancelEventuallyEndsRun ==
    /\ CancelPending ~> (pc = "done" /\ Len(finished_signal) = 1)
    /\ [][CancelPending =>
            /\ files_modified' = files_modified
            /\ tally' = tally
            /\ pc' \in {"loop", "after_loop"}]_vars

\* stop() has been called with a unit inside a worker and a task still
\* waiting for one.
C33_Witness ==
    /\ CancelPending
    /\ workers # {} /\ tasks # {}

\* The last extension of the name of p is on the deny-list of binary
\* extensions, in lower or in upper case.
HasBinaryExtension(p) ==
    /\ Len(p.name) >= 2
    /\ ~(Len(p.name) = 2 /\ p.name[1] = "")
    /\ p.name[Len(p.name)] \in
          {"pak", "lsf", "bin", "exe", "dll", "so", "dylib", "jpg", "png",
           "ttf", "dat", "db", "PAK", "LSF"}

\* C34: a file with a binary extension is never inside a worker as a unit
\* that was read, is never opened for writing, backed up or written, and
\* its result says unmodified, also when it holds a replacement id.
C34_BinaryFilesSkippedUnread ==
    kind = "xml" =>
        /\ \A u \in workers : ~HasBinaryExtension(u.path)
        /\ \A p \in hist.patched \cup hist.backedUp \cup DOMAIN hist.pre :
              ~HasBinaryExtension(p)
        /\ \A r \in results :
              HasBinaryExtension(r.file_path) => ~r.modified /\ ~r.error
        /\ \A p \in hist.created :
              \A q \in DOMAIN fs : HasBinaryExtension(q) => p # BackupPath(q)

\* The pool has handed out a file with a binary extension that holds a
\* replacement id, and another file has been rewritten.
C34_Witness ==
    /\ kind = "xml" /\ pc = "done"
    /\ hist.patched # {}
    /\ \E p \in hist.taken :
          /\ HasBinaryExtension(p)
          /\ \E uid \in DictKeys(replacements) : UidInContent(uid, fs[p])

\* The run has read both catalogs.
CatalogsRead == kind = "xml" /\ pc # "start" /\ ~LoadFailed

\* C35: the map of the original XML holds, for every id, the version and
\* the text of the last element with that id in document order; an element
\* of the new XML is marked by comparison with that last element, and the
\* version a worker writes next to a replaced id is the version of that
\* last element.
C35_DuplicateIdsLastWins ==
    CatalogsRead =>
        /\ DOMAIN original_contents = {e.uid : e \in OriginalEntries}
        /\ \A uid \in DOMAIN original_contents :
              original_contents[uid] =
                  [version |-> VersionOrEmpty(OriginalEntry(uid)),
                   text |-> OriginalEntry(uid).text]
        /\ \A n \in 1..Len(new_tree.elems) :
              Marked(n) =>
                  LET e == new_tree.elems[n]
                  IN  /\ e.text = OriginalEntry(e.uid).text
                      /\ VersionOrEmpty(e) # VersionOrEmpty(OriginalEntry(e.uid))
        /\ \A u \in workers :
              \A i \in 1..Len(u.modified_content) :
                  LET tok == u.modified_content[i]
                  IN  (tok.t = "cuid" /\ tok.uid \in DictKeys(replacements)) =>
                          tok.version = VersionOrEmpty(OriginalEntry(tok.uid))

\* The original XML has two entries for one id with different versions,
\* and a worker has prepared the content of a file holding that id.
C35_Witness ==
    /\ CatalogsRead /\ pc = "loop"
    /\ \E e1, e2 \in OriginalEntries :
          /\ e1.uid = e2.uid /\ e1.version # e2.version
          /\ \E u \in workers :
                /\ u.pc \in {"open", "flush"}
                /\ \E i \in 1..Len(u.modified_content) :
                      /\ u.modified_content[i].t = "cuid"
                      /\ u.modified_content[i].uid = e1.uid
                      /\ u.modified_content[i] # u.content[i]

\* The ids of the content elements of the new XML as read, one per element
\* that has a contentuid.
NewIdsRepeat ==
    \E n, m \in 1..Len(new_tree.elems) :
        /\ n # m
        /\ new_tree.elems[n].uid # NoAttr
        /\ new_tree.elems[n].uid = new_tree.elems[m].uid

\* C36: every key of the replacement map is its own value and is an id of
\* original_contents; the number of nodes queued for deletion is at least
\* the number of replacements, and equal to it when no id occurs twice in
\* the new XML; the result reports these two numbers.
C36_ReplacementMapIsIdentityOnOriginalIds ==
    kind = "xml" =>
        /\ \A i \in 1..Len(replacements) :
              /\ replacements[i].k = replacements[i].v
              /\ replacements[i].k \in DOMAIN original_contents
              /\ OriginalHas(replacements[i].k)
        /\ Len(nodes_to_delete) >= Len(replacements)
        /\ ~NewIdsRepeat => Len(nodes_to_delete) = Len(replacements)
        /\ \A j \in 1..Len(finished_signal) :
              /\ finished_signal[j].nodes_deleted = Len(nodes_to_delete)
              /\ finished_signal[j].replacements = Len(replacements)

\* The run has reported more deleted nodes than replacements: an id of the
\* new XML was marked twice.
C36_Witness ==
    /\ kind = "xml" /\ pc = "done" /\ Len(finished_signal) = 1
    /\ finished_signal[1].replacements = 1
    /\ finished_signal[1].nodes_deleted = 2
    /\ NewIdsRepeat

\* C37: in every final result of a conversion run, completed or canceled,
\* converted_files, skipped_files and the number of error_files add up to
\* total_scanned.
C37_SummaryAddsUp ==
    kind \in {"lsx", "lsf"} =>
        \A j \in 1..Len(finished_signal) :
            finished_signal[j].converted_files + finished_signal[j].skipped_files
                + Len(finished_signal[j].error_files)
              = finished_signal[j].total_scanned

\* The units of the patch run that made their backup although the
\* substitution rules leave their content as it is.
BackedUpUnchanged ==
    {u \in workers : u.pc = "backup" /\ u.modified_content = u.content}

\* C38: with backups on, a worker copies a file to its .backup only when it
\* then writes the file: no unit whose content the substitution rules
\* leave unchanged makes a backup, and when a run without write failures
\* has gone through its files every file that was backed up was written.
C38_BackupOnlyForWrittenFiles ==
    (kind = "xml" /\ backup) =>
        /\ BackedUpUnchanged = {}
        /\ (PatchCompleted /\ readonly = {}) => hist.backedUp \subseteq hist.patched

\* Every token of the content c that holds a replacement id carries a
\* version, and that version is the version of the id in the original XML.
AllAtOriginalVersion(c) ==
    \A i \in 1..Len(c) :
        \A uid \in DictKeys(replacements) :
            UidInToken(uid, c[i]) =>
                /\ "version" \in DOMAIN c[i]
                /\ c[i].uid = uid
                /\ c[i].version = original_contents[uid].version

\* C39: a file in which every occurrence of every replacement id already
\* carries the original version of that id is left as it is by the rules of
\* its category, whatever whitespace surrounds the id: the content a
\* worker prepares for it is the content it read.
C39_FileAtOriginalVersionUntouched ==
    kind = "xml" =>
        \A u \in workers :
            AllAtOriginalVersion(u.content) => u.modified_content = u.content
====
